---- MODULE Spec2Model ----
(***************************************************************************)
(* A model of src/date.rs: the command line of "date" (parse_cli), the     *)
(* positional MMDDhhmm[[CC]YY][.ss] parser (parse_custom_date_time), the   *)
(* free-form parser (parse_date_time), the template table                  *)
(* (make_format_string) and the run itself (uumain / uumain_impl).         *)
(*                                                                         *)
(* Text is a sequence of one-character strings.  A template is a sequence  *)
(* whose conversion specifiers ("%F", "%:z", ...) are single items.        *)
(* Option<T> is <<>> (None) or <<x>> (Some(x)).                            *)
(***************************************************************************)
EXTENDS Integers, Sequences, FiniteSets, TLC

VARIABLES
    args,        \* the command line handed to uumain (flags, values, positionals)
    pc,          \* position of the run: "start", "file", "done", or of a pure call
    settings,    \* the Settings parse_cli returned (NoSettings before / on failure)
    lines,       \* the lines of the opened date-file
    lineIdx,     \* index of the next line the File loop reads
    stdout,      \* the lines println! has written
    exit,        \* the status uumain returns (-1 while running)
    err,         \* the error written to stderr: [kind, value]
    effects,     \* side effects so far: [setParsed, fileOpened, clockSet]
    input,       \* argument of a pure call (SpecCustom, SpecRound)
    result       \* its result

vars == <<args, pc, settings, lines, lineIdx, stdout, exit, err, effects, input, result>>

None == <<>>
Some(x) == <<x>>

(***************************************************************************)
(* Characters and numbers                                                  *)
(***************************************************************************)
DigitChars == <<"0", "1", "2", "3", "4", "5", "6", "7", "8", "9">>

IsDigit(c) == \E i \in 1..10 : DigitChars[i] = c

DigitVal(c) == (CHOOSE i \in 1..10 : DigitChars[i] = c) - 1

Pow10(k) == IF k = 0 THEN 1 ELSE IF k = 1 THEN 10 ELSE IF k = 2 THEN 100
            ELSE IF k = 3 THEN 1000 ELSE IF k = 4 THEN 10000
            ELSE IF k = 5 THEN 100000 ELSE IF k = 6 THEN 1000000
            ELSE IF k = 7 THEN 10000000 ELSE IF k = 8 THEN 100000000
            ELSE 1000000000

\* n written in decimal, zero-padded to width w (the renderer's %d, %H, %Y, %f)
Pad(n, w) == [i \in 1..w |-> DigitChars[((n \div Pow10(w - i)) % 10) + 1]]

\* the value of a run of at most nine decimal digits
RECURSIVE DecimalValue(_)
DecimalValue(s) ==
    IF s = <<>> THEN 0
    ELSE 10 * DecimalValue(SubSeq(s, 1, Len(s) - 1)) + DigitVal(s[Len(s)])

\* the number of leading digit characters of s
DigitRun(s) ==
    CHOOSE k \in 0..Len(s) :
        /\ \A i \in 1..k : IsDigit(s[i])
        /\ (k = Len(s) \/ ~IsDigit(s[k + 1]))

Drop(s, k) == SubSeq(s, k + 1, Len(s))

(***************************************************************************)
(* The calendar (chrono's proleptic Gregorian dates)                       *)
(***************************************************************************)
IsLeap(y) == (y % 4 = 0 /\ y % 100 # 0) \/ y % 400 = 0

DaysInMonth(y, m) ==
    IF m = 2 THEN (IF IsLeap(y) THEN 29 ELSE 28)
    ELSE IF m \in {4, 6, 9, 11} THEN 30 ELSE 31

ValidDate(y, m, d) == m \in 1..12 /\ d >= 1 /\ d <= DaysInMonth(y, m)

\* days since 1970-01-01 of a civil date
DaysFromCivil(y, m, d) ==
    LET yy  == IF m <= 2 THEN y - 1 ELSE y
        era == yy \div 400
        yoe == yy - era * 400
        mp  == IF m > 2 THEN m - 3 ELSE m + 9
        doy == (153 * mp + 2) \div 5 + d - 1
        doe == yoe * 365 + yoe \div 4 - yoe \div 100 + doy
    IN era * 146097 + doe - 719468

\* the civil date of a day number
CivilFromDays(z) ==
    LET zz  == z + 719468
        era == zz \div 146097
        doe == zz - era * 146097
        yoe == (doe - doe \div 1460 + doe \div 36524 - doe \div 146096) \div 365
        doy == doe - (365 * yoe + yoe \div 4 - yoe \div 100)
        mp  == (5 * doy + 2) \div 153
        d   == doy - (153 * mp + 2) \div 5 + 1
        m   == IF mp < 10 THEN mp + 3 ELSE mp - 9
        y   == yoe + era * 400
    IN [year |-> IF m <= 2 THEN y + 1 ELSE y, month |-> m, day |-> d]

\* 0 = Sunday .. 6 = Saturday (1970-01-01 was a Thursday)
Weekday(y, m, d) == (DaysFromCivil(y, m, d) + 4) % 7

WeekdayNames == << <<"S", "u", "n">>, <<"M", "o", "n">>, <<"T", "u", "e">>,
                   <<"W", "e", "d">>, <<"T", "h", "u">>, <<"F", "r", "i">>,
                   <<"S", "a", "t">> >>

MonthNames == << <<"J", "a", "n">>, <<"F", "e", "b">>, <<"M", "a", "r">>,
                 <<"A", "p", "r">>, <<"M", "a", "y">>, <<"J", "u", "n">>,
                 <<"J", "u", "l">>, <<"A", "u", "g">>, <<"S", "e", "p">>,
                 <<"O", "c", "t">>, <<"N", "o", "v">>, <<"D", "e", "c">> >>

(***************************************************************************)
(* DateTime<FixedOffset>: the local civil fields and the offset (minutes)  *)
(***************************************************************************)
Timestamp(y, mo, d, h, mi, s, ns, off) ==
    [year |-> y, month |-> mo, day |-> d, hour |-> h, minute |-> mi,
     second |-> s, nano |-> ns, off |-> off]

NoTimestamp == Timestamp(0, 0, 0, 0, 0, 0, 0, 0)

with_month(t, m) ==
    IF ValidDate(t.year, m, t.day) THEN Some([t EXCEPT !.month = m]) ELSE None

with_day(t, d) ==
    IF ValidDate(t.year, t.month, d) THEN Some([t EXCEPT !.day = d]) ELSE None

with_hour(t, h) == IF h <= 23 THEN Some([t EXCEPT !.hour = h]) ELSE None

with_minute(t, m) == IF m <= 59 THEN Some([t EXCEPT !.minute = m]) ELSE None

with_year(t, y) ==
    IF ValidDate(y, t.month, t.day) THEN Some([t EXCEPT !.year = y]) ELSE None

with_second(t, s) == IF s <= 59 THEN Some([t EXCEPT !.second = s]) ELSE None

\* DateTime::timestamp(): seconds since the epoch, UTC
timestamp(t) ==
    DaysFromCivil(t.year, t.month, t.day) * 86400
        + t.hour * 3600 + t.minute * 60 + t.second - t.off * 60

\* UTC.timestamp(secs, nsecs), then with_timezone(&offset.fix()): offset 0
utc_timestamp(secs, nsecs) ==
    LET c   == CivilFromDays(secs \div 86400)
        sod == secs % 86400
    IN Timestamp(c.year, c.month, c.day, sod \div 3600, (sod % 3600) \div 60,
                 sod % 60, nsecs, 0)

(***************************************************************************)
(* The renderer: DateTime::format(template), one item at a time            *)
(***************************************************************************)
OffsetText(off, colon) ==
    LET a == IF off < 0 THEN -off ELSE off
    IN <<IF off < 0 THEN "-" ELSE "+">> \o Pad(a \div 60, 2)
           \o (IF colon THEN <<":">> ELSE <<>>) \o Pad(a % 60, 2)

DateText(t) == Pad(t.year, 4) \o <<"-">> \o Pad(t.month, 2) \o <<"-">> \o Pad(t.day, 2)

TimeText(t) ==
    Pad(t.hour, 2) \o <<":">> \o Pad(t.minute, 2) \o <<":">>
        \o Pad(t.second + t.nano \div 1000000000, 2)

RenderItem(item, t) ==
    CASE item = "%F" -> DateText(t)
      [] item = "%T" -> TimeText(t)
      [] item = "%:z" -> OffsetText(t.off, TRUE)
      [] item = "%z" -> OffsetText(t.off, FALSE)
      [] item = "%Z" -> OffsetText(t.off, TRUE)
      [] item = "%a" -> WeekdayNames[Weekday(t.year, t.month, t.day) + 1]
      [] item \in {"%b", "%h"} -> MonthNames[t.month]
      [] item = "%d" -> Pad(t.day, 2)
      [] item = "%e" -> IF t.day < 10 THEN <<" ">> \o Pad(t.day, 1) ELSE Pad(t.day, 2)
      [] item = "%Y" -> Pad(t.year, 4)
      [] item = "%H" -> Pad(t.hour, 2)
      [] item = "%M" -> Pad(t.minute, 2)
      [] item = "%f" -> Pad(t.nano % 1000000000, 9)
      [] OTHER -> <<item>>

\* date.format(format_string), as println! writes it
RECURSIVE format(_, _)
format(t, template) ==
    IF template = <<>> THEN <<>>
    ELSE RenderItem(Head(template), t) \o format(t, Tail(template))

(***************************************************************************)
(* Format, and make_format_string                                          *)
(***************************************************************************)
DATE == "date"
HOURS == "hours"
MINUTES == "minutes"
SECONDS == "seconds"
NS == "ns"

Iso8601(p) == [tag |-> "Iso8601", prec |-> p, fmt |-> <<>>]
Rfc2822 == [tag |-> "Rfc2822", prec |-> "", fmt |-> <<>>]
Rfc3339(p) == [tag |-> "Rfc3339", prec |-> p, fmt |-> <<>>]
Custom(f) == [tag |-> "Custom", prec |-> "", fmt |-> f]
Default == [tag |-> "Default", prec |-> "", fmt |-> <<>>]

make_format_string(f) ==
    CASE f.tag = "Iso8601" ->
           (CASE f.prec = DATE -> <<"%F">>
              [] f.prec = HOURS -> <<"%F", "T", "%H", "%:z">>
              [] f.prec = MINUTES -> <<"%F", "T", "%H", ":", "%M", "%:z">>
              [] f.prec = SECONDS -> <<"%F", "T", "%T", "%:z">>
              [] f.prec = NS -> <<"%F", "T", "%T", ",", "%f", "%:z">>)
      [] f.tag = "Rfc2822" ->
           <<"%a", ",", " ", "%d", " ", "%h", " ", "%Y", " ", "%T", " ", "%z">>
      [] f.tag = "Rfc3339" ->
           (CASE f.prec = DATE -> <<"%F">>
              [] f.prec = SECONDS -> <<"%F", " ", "%T", "%:z">>
              [] f.prec = NS -> <<"%F", " ", "%T", ".", "%f", "%:z">>)
      [] f.tag = "Custom" -> f.fmt
      [] f.tag = "Default" ->
           <<"%a", " ", "%b", " ", "%e", " ", "%T", " ", "%Z", " ", "%Y">>

(***************************************************************************)
(* Results: Ok(timestamp) or an errors::ErrorKind with its payload         *)
(***************************************************************************)
Ok(t) == [kind |-> "Ok", value |-> 0, text |-> <<>>, ts |-> t]
Err(k, v) == [kind |-> k, value |-> v, text |-> <<>>, ts |-> NoTimestamp]
ErrText(k, s) == [kind |-> k, value |-> 0, text |-> s, ts |-> NoTimestamp]
NoResult == Err("None", 0)
NoError == [kind |-> "None", value |-> 0, text |-> <<>>]
ErrorOf(r) == [kind |-> r.kind, value |-> r.value, text |-> r.text]

(***************************************************************************)
(* chrono's scanners.  A cursor is [ok, i, v]: i is the next position of   *)
(* the text and v the values scanned so far.                               *)
(***************************************************************************)
At(s, i) == IF i >= 1 /\ i <= Len(s) THEN s[i] ELSE ""

Cursor(i, v) == [ok |-> TRUE, i |-> i, v |-> v]
Failed == [ok |-> FALSE, i |-> 0, v |-> <<>>]

Min(a, b) == IF a < b THEN a ELSE b

\* the first position from i on whose character is not in chars
SkipChars(s, i, chars) ==
    CHOOSE j \in i..(Len(s) + 1) :
        /\ \A k \in i..(j - 1) : s[k] \in chars
        /\ At(s, j) \notin chars

\* the n digits at the cursor, as a number; fewer than min is a failure
TakeNumber(s, c, n, min) ==
    IF n < min THEN Failed
    ELSE Cursor(c.i + n, Append(c.v, DecimalValue(SubSeq(s, c.i, c.i + n - 1))))

\* scan::number(s, min, max): between min and max digits, as many as there are
ScanNumber(s, c, min, max) ==
    IF ~c.ok THEN Failed
    ELSE TakeNumber(s, c, Min(DigitRun(Drop(s, c.i - 1)), max), min)

\* scan::char(s, ch)
ScanChar(s, c, chars) ==
    IF c.ok /\ At(s, c.i) \in chars THEN [c EXCEPT !.i = @ + 1] ELSE Failed

\* str::trim_left()
TrimLeft(s, c) ==
    IF ~c.ok THEN Failed ELSE [c EXCEPT !.i = SkipChars(s, c.i, {" "})]

\* scan::space(s): at least one white space
ScanSpace(s, c) ==
    IF c.ok /\ At(s, c.i) = " " THEN TrimLeft(s, c) ELSE Failed

\* the n digits of a fraction, the first nine of them counted, as nanoseconds
TakeNanosecond(s, c, n) ==
    IF n = 0 THEN Failed
    ELSE Cursor(c.i + n,
                Append(c.v, DecimalValue(SubSeq(s, c.i, c.i + Min(n, 9) - 1))
                                * Pow10(9 - Min(n, 9))))

\* scan::nanosecond(s): one or more digits
ScanNanosecond(s, c) ==
    IF ~c.ok THEN Failed ELSE TakeNanosecond(s, c, DigitRun(Drop(s, c.i - 1)))

\* an optional "." and fraction; 0 nanoseconds without one
ScanOptFraction(s, c) ==
    IF ~c.ok THEN Failed
    ELSE IF At(s, c.i) = "." THEN ScanNanosecond(s, [c EXCEPT !.i = @ + 1])
    ELSE [c EXCEPT !.v = Append(@, 0)]

\* between the hours and the minutes of an offset: a colon ("required"),
\* colons and blanks (scan::colon_or_space, "optional") or nothing ("none")
ScanOffsetSeparator(s, c, colon) ==
    IF ~c.ok THEN Failed
    ELSE IF colon = "required" THEN ScanChar(s, c, {":"})
    ELSE IF colon = "optional" THEN [c EXCEPT !.i = SkipChars(s, c.i, {":", " "})]
    ELSE c

\* the offset in minutes, from the sign and the <<hh, mm>> scanned after it
OffsetValue(c, sign, hhmm) ==
    IF hhmm.ok /\ hhmm.v[2] <= 59
    THEN Cursor(hhmm.i, Append(c.v, (IF sign = "-" THEN -1 ELSE 1)
                                        * (hhmm.v[1] * 60 + hhmm.v[2])))
    ELSE Failed

\* scan::timezone_offset(s, colon): sign, hh, the separator, mm
ScanOffset(s, c, colon) ==
    IF ~c.ok THEN Failed
    ELSE OffsetValue(c, At(s, c.i),
             ScanNumber(s,
                 ScanOffsetSeparator(s,
                     ScanNumber(s, ScanChar(s, Cursor(c.i, <<>>), {"+", "-"}), 2, 2),
                     colon),
                 2, 2))

\* scan::timezone_offset_zulu: "Z" / "z", or an offset
ScanOffsetZulu(s, c, colon) ==
    IF c.ok /\ At(s, c.i) \in {"Z", "z"} THEN Cursor(c.i + 1, Append(c.v, 0))
    ELSE ScanOffset(s, c, colon)

\* the index in names of the three letters at position i, 0 when none
NameIndex(s, i, names) ==
    IF i + 2 <= Len(s) /\ \E k \in 1..Len(names) : SubSeq(s, i, i + 2) = names[k]
    THEN CHOOSE k \in 1..Len(names) : SubSeq(s, i, i + 2) = names[k]
    ELSE 0

TakeName(c, k) == IF k = 0 THEN Failed ELSE Cursor(c.i + 3, Append(c.v, k))

\* scan::short_month0 / scan::short_weekday
ScanName(s, c, names) ==
    IF ~c.ok THEN Failed ELSE TakeName(c, NameIndex(s, c.i, names))

\* RFC 2822's optional day of week: the name and a comma; 0 without one
TakeOptWeekday(s, c, wd) ==
    IF wd.ok THEN TrimLeft(s, ScanChar(s, wd, {","}))
    ELSE [c EXCEPT !.v = Append(@, 0)]

ScanOptWeekday(s, c) ==
    IF ~c.ok THEN Failed ELSE TakeOptWeekday(s, c, ScanName(s, c, WeekdayNames))

\* the year of an RFC 2822 date: two digits are 20xx / 19xx, three are 19xx
AdjustYear(y, n) ==
    IF n = 2 /\ y < 50 THEN y + 2000 ELSE IF n <= 3 THEN y + 1900 ELSE y

TakeYear2822(c, from) ==
    IF ~c.ok THEN Failed
    ELSE [c EXCEPT !.v[Len(c.v)] = AdjustYear(@, c.i - from)]

ScanYear2822(s, c) ==
    IF ~c.ok THEN Failed ELSE TakeYear2822(ScanNumber(s, c, 2, 9), c.i)

\* RFC 2822's optional ":" and seconds; 0 without them
TakeOptSecond(s, c, colon) ==
    IF colon.ok THEN ScanNumber(s, TrimLeft(s, colon), 2, 2)
    ELSE [c EXCEPT !.v = Append(@, 0)]

ScanOptSecond(s, c) ==
    IF ~c.ok THEN Failed
    ELSE TakeOptSecond(s, c, ScanChar(s, TrimLeft(s, c), {":"}))

\* one item of a grammar
Item(op, chars, min, max) == [op |-> op, chars |-> chars, min |-> min, max |-> max]
Num(min, max) == Item("number", {}, min, max)
Lit(chars) == Item("char", chars, 0, 0)
Op(op) == Item(op, {}, 0, 0)

ScanItem(s, c, item) ==
    CASE item.op = "number" -> ScanNumber(s, c, item.min, item.max)
      [] item.op = "char" -> ScanChar(s, c, item.chars)
      [] item.op = "trim" -> TrimLeft(s, c)
      [] item.op = "space" -> ScanSpace(s, c)
      [] item.op = "fraction" -> ScanOptFraction(s, c)
      [] item.op = "offset:" -> ScanOffsetZulu(s, c, "required")
      [] item.op = "offset" -> ScanOffsetZulu(s, c, "optional")
      [] item.op = "offset2822" -> ScanOffset(s, c, "none")
      [] item.op = "weekday" -> ScanOptWeekday(s, c)
      [] item.op = "month" -> ScanName(s, c, MonthNames)
      [] item.op = "year2822" -> ScanYear2822(s, c)
      [] item.op = "second2822" -> ScanOptSecond(s, c)

\* format::parse: the items one after the other
RECURSIVE Scan(_, _, _)
Scan(s, c, items) ==
    IF items = <<>> THEN c ELSE Scan(s, ScanItem(s, c, Head(items)), Tail(items))

\* the whole text was consumed
ScanAll(s, items) == ScanChar(s, Scan(s, Cursor(1, <<>>), items), {""})

\* Parsed::to_datetime: the fields form a date-time (second 60 is a leap second)
to_datetime(y, mo, d, h, mi, sec, ns, off) ==
    IF ValidDate(y, mo, d) /\ h <= 23 /\ mi <= 59 /\ sec <= 60
    THEN Some(IF sec = 60 THEN Timestamp(y, mo, d, h, mi, 59, 1000000000 + ns, off)
              ELSE Timestamp(y, mo, d, h, mi, sec, ns, off))
    ELSE None

\* year-month-day, "T" or "t", hour:minute:second, [.fraction], "Z" or +hh:mm
Rfc3339Items ==
    <<Num(4, 4), Lit({"-"}), Num(2, 2), Lit({"-"}), Num(2, 2), Lit({"T", "t"}),
      Num(2, 2), Lit({":"}), Num(2, 2), Lit({":"}), Num(2, 2),
      Op("fraction"), Op("offset:")>>

Rfc3339Fields(c) ==
    IF c.ok THEN to_datetime(c.v[1], c.v[2], c.v[3], c.v[4], c.v[5], c.v[6], c.v[7], c.v[8])
    ELSE None

\* DateTime::<FixedOffset>::parse_from_rfc3339
parse_from_rfc3339(s) == Rfc3339Fields(ScanAll(s, Rfc3339Items))

\* [day-of-week ","] day month year hh:mm[:ss] +hhmm, for a numeric zone and
\* no comments
Rfc2822Items ==
    <<Op("trim"), Op("weekday"), Num(1, 2), Op("space"), Op("month"), Op("space"),
      Op("year2822"), Op("space"), Num(2, 2), Op("trim"), Lit({":"}), Op("trim"),
      Num(2, 2), Op("second2822"), Op("space"), Op("offset2822"), Op("trim")>>

\* the fields are <<weekday, day, month, year, hour, minute, second, offset>>;
\* a day of week that is given must be the date's
Rfc2822Fields(c) ==
    IF c.ok /\ (c.v[1] # 0 => Weekday(c.v[4], c.v[3], c.v[2]) = c.v[1] - 1)
    THEN to_datetime(c.v[4], c.v[3], c.v[2], c.v[5], c.v[6], c.v[7], 0, c.v[8])
    ELSE None

\* DateTime::<FixedOffset>::parse_from_rfc2822
parse_from_rfc2822(s) == Rfc2822Fields(ScanAll(s, Rfc2822Items))

\* the ITEMS of <DateTime<FixedOffset> as FromStr>: year-month-day, "T",
\* hour:minute:second, [.fraction], offset, blanks allowed between them
FromStrItems ==
    <<Op("trim"), Num(1, 4), Op("trim"), Lit({"-"}), Op("trim"), Num(1, 2),
      Op("trim"), Lit({"-"}), Op("trim"), Num(1, 2), Op("trim"), Lit({"T"}),
      Op("trim"), Num(1, 2), Op("trim"), Lit({":"}), Op("trim"), Num(1, 2),
      Op("trim"), Lit({":"}), Op("trim"), Num(1, 2), Op("fraction"),
      Op("trim"), Op("offset"), Op("trim")>>

FromStrResult(t) == IF t = None THEN ErrText("ChronoParse", <<>>) ELSE Ok(t[1])

\* <DateTime<FixedOffset> as FromStr>::from_str, what str::parse() calls
from_str(s) == FromStrResult(Rfc3339Fields(ScanAll(s, FromStrItems)))

(***************************************************************************)
(* parse_date_time: RFC 2822 first, then RFC 3339                          *)
(***************************************************************************)
parse_functions == <<"parse_from_rfc2822", "parse_from_rfc3339">>

call_parse(parse, time) ==
    IF parse = "parse_from_rfc2822" THEN parse_from_rfc2822(time)
    ELSE parse_from_rfc3339(time)

\* the for loop: return the first Ok, or the error that carries the text
RECURSIVE try_parse_functions(_, _)
return_or_continue(date, time, others) ==
    IF date # None THEN Ok(date[1]) ELSE try_parse_functions(time, others)

try_parse_functions(time, functions) ==
    IF functions = <<>> THEN ErrText("ArbitraryDateTimeParse", time)
    ELSE return_or_continue(call_parse(Head(functions), time), time, Tail(functions))

parse_date_time(time) == try_parse_functions(time, parse_functions)

(***************************************************************************)
(* nom: IResult is [kind, out, rest], kind Done, Error or Incomplete       *)
(***************************************************************************)
Done(out, rest) == [kind |-> "Done", out |-> out, rest |-> rest]
NomFail(kind, rest) == [kind |-> kind, out |-> 0, rest |-> rest]

\* a digit parser that takes exactly one digit
digit_one(s) ==
    IF Len(s) = 0 THEN NomFail("Error", s)
    ELSE IF IsDigit(s[1]) THEN Done(<<s[1]>>, Tail(s))
    ELSE NomFail("Error", s)

take_digits(s, n) ==
    IF n = 0 THEN NomFail("Error", s) ELSE Done(SubSeq(s, 1, n), Drop(s, n))

\* nom::digit: the whole run of leading digits, one or more.  On empty input
\* nom 2 answers Error and nom 3 Incomplete; both end as ErrorKind::Nom.
digit(s) ==
    IF Len(s) = 0 THEN NomFail("Error", s) ELSE take_digits(s, DigitRun(s))

\* str::parse::<u32>() of a digit run
parse_u32(s) == DecimalValue(s)

two_digits_value(s, first, second) ==
    IF second.kind # "Done" THEN NomFail(second.kind, s)
    ELSE Done(parse_u32(first.out) * 10 + parse_u32(second.out), second.rest)

two_digits_second(s, first) ==
    IF first.kind # "Done" THEN NomFail(first.kind, s)
    ELSE two_digits_value(s, first, digit(first.rest))

\* named!(two_digits): digit, then digit again on what the first one left
two_digits(s) == two_digits_second(s, digit(s))

\* opt!(p): Some on Done, None (and nothing consumed) on Error
opt(r, s) ==
    IF r.kind = "Done" THEN Done(Some(r.out), r.rest)
    ELSE IF r.kind = "Error" THEN Done(None, s)
    ELSE NomFail(r.kind, s)

\* char!('.')
char_dot(s) ==
    IF Len(s) = 0 THEN NomFail("Incomplete", s)
    ELSE IF s[1] = "." THEN Done(".", Tail(s))
    ELSE NomFail("Error", s)

dot_then_two_digits(s, dot) ==
    IF dot.kind # "Done" THEN NomFail(dot.kind, s) ELSE two_digits(dot.rest)

\* the parsers of the token, by name
run_parser(name, s) ==
    CASE name = "two_digits" -> two_digits(s)
      [] name = "opt!(two_digits)" -> opt(two_digits(s), s)
      [] name = "opt!('.' two_digits)" -> opt(dot_then_two_digits(s, char_dot(s)), s)

\* do_parse!'s ">>": the next parser runs on what the ones before left
bind(p, r) ==
    IF r.kind = "Done" THEN Done(Append(p.out, r.out), r.rest)
    ELSE NomFail(r.kind, p.rest)

RECURSIVE do_parse(_, _)
do_parse(p, parsers) ==
    IF parsers = <<>> \/ p.kind # "Done" THEN p
    ELSE do_parse(bind(p, run_parser(Head(parsers), p.rest)), Tail(parsers))

(***************************************************************************)
(* get_now and parse_custom_date_time                                      *)
(***************************************************************************)
\* A reading of the system clock: [secs, nsecs] since the epoch and the
\* local offset in minutes.  UTC::now() or Local::now(), fixed-offset.
get_now(utc, clock) ==
    IF utc THEN utc_timestamp(clock.secs, clock.nsecs)
    ELSE [utc_timestamp(clock.secs + clock.local * 60, clock.nsecs)
              EXCEPT !.off = clock.local]

\* the two "let year" lines
resolve_year(now_year, before_dot1, before_dot2) ==
    LET year == IF before_dot1 = None THEN now_year
                ELSE now_year \div 100 + before_dot1[1]
    IN IF before_dot2 = None THEN year
       ELSE year \div 10000 + before_dot2[1] * 100 + (year % 100)

with_field(t, field, v) ==
    CASE field = "Month" -> with_month(t, v)
      [] field = "Day" -> with_day(t, v)
      [] field = "Hour" -> with_hour(t, v)
      [] field = "Minute" -> with_minute(t, v)
      [] field = "Year" -> with_year(t, v)
      [] field = "Second" -> with_second(t, v)

\* .ok_or(errors::ErrorKind::ParseMonth(month))? and its five siblings
ok_or(t, kind, v) == IF t = None THEN Err(kind, v) ELSE Ok(t[1])

set_field(r, field, v) ==
    IF r.kind # "Ok" THEN r
    ELSE ok_or(with_field(r.ts, field, v), "Parse" \o field, v)

\* the chain on date_time: month, day, hour, minute, year, second
set_fields(date_time, month, day, hour, minute, year, second) ==
    set_field(set_field(set_field(set_field(set_field(set_field(
        Ok(date_time), "Month", month), "Day", day), "Hour", hour),
        "Minute", minute), "Year", year), "Second", second)

unwrap_or(o, v) == IF o = None THEN v ELSE o[1]

\* the closure of do_parse!, on date_time = get_now(utc)
apply_fields(date_time, f) ==
    set_fields(date_time, f[1], f[2], f[3], f[4],
               resolve_year(date_time.year, f[5], f[6]), unwrap_or(f[7], 0))

TokenParsers ==
    <<"two_digits", "two_digits", "two_digits", "two_digits",
      "opt!(two_digits)", "opt!(two_digits)", "opt!('.' two_digits)">>

\* res.to_full_result()?: what is left of the token is not looked at
to_full_result(res, utc, clock) ==
    IF res.kind # "Done" THEN Err("Nom", 0)
    ELSE apply_fields(get_now(utc, clock), res.out)

parse_custom_date_time(time, utc, clock) ==
    to_full_result(do_parse(Done(<<>>, time), TokenParsers), utc, clock)

(***************************************************************************)
(* The command line as clap sees it (App::get_matches_from)                *)
(*                                                                         *)
(* args = [utc, date, file, reference, iso8601, rfc2822, rfc3339, set,     *)
(*         positionals].  An option is None or Some(value); iso8601 is     *)
(* Some("") when the flag stands without a TIMESPEC.  The first            *)
(* positional is "format", the second "positional set".                    *)
(***************************************************************************)
value_of(a, name) ==
    CASE name = "date" -> a.date
      [] name = "file" -> a.file
      [] name = "reference" -> a.reference
      [] name = "iso-8601" -> IF a.iso8601 = Some("") THEN None ELSE a.iso8601
      [] name = "rfc-3339" -> a.rfc3339
      [] name = "set" -> a.set
      [] name = "format" ->
           IF Len(a.positionals) >= 1 THEN Some(a.positionals[1]) ELSE None
      [] name = "positional set" ->
           IF Len(a.positionals) >= 2 THEN Some(a.positionals[2]) ELSE None
      [] OTHER -> None

\* a name no Arg was declared with is never present
is_present(a, name) ==
    CASE name = "utc" -> a.utc
      [] name = "rfc-2822" -> a.rfc2822
      [] name = "iso-8601" -> a.iso8601 # None
      [] OTHER -> value_of(a, name) # None

PrintSourceGroup == {"date", "file", "reference"}
FormatOutputGroup == {"format", "iso-8601", "rfc-2822", "rfc-3339"}
SetDateGroup == {"set", "positional set"}

GroupCount(a, group) == Cardinality({n \in group : is_present(a, n)})

\* the validator of "format": the value starts with '+'
format_validator(fmt) == Len(fmt) >= 1 /\ fmt[1] = "+"

\* the groups without conflicts_with("print source")
NoGroupConflictWithoutConflictsWith(a) ==
    /\ GroupCount(a, PrintSourceGroup) <= 1
    /\ GroupCount(a, FormatOutputGroup) <= 1
    /\ GroupCount(a, SetDateGroup) <= 1

\* the members of an ArgGroup exclude each other, and "set date"
\* conflicts_with "print source"
NoGroupConflict(a) ==
    /\ GroupCount(a, PrintSourceGroup) <= 1
    /\ GroupCount(a, FormatOutputGroup) <= 1
    /\ GroupCount(a, SetDateGroup) <= 1
    /\ ~(GroupCount(a, SetDateGroup) >= 1 /\ GroupCount(a, PrintSourceGroup) >= 1)

\* TRUE when clap accepts the command line; otherwise it reports the usage
\* error and exits with status 1 before parse_cli goes on.  The validator of
\* "format" must pass and an option that takes a value must have one.
get_matches_from(a) ==
    /\ is_present(a, "format") => format_validator(a.positionals[1])
    /\ a.iso8601 # Some("")
    /\ NoGroupConflict(a)

(***************************************************************************)
(* Settings and parse_cli                                                  *)
(***************************************************************************)
SourceNow == [tag |-> "Now", text |-> <<>>, path |-> ""]
SourceCustom(s) == [tag |-> "Custom", text |-> s, path |-> ""]
SourceFile(p) == [tag |-> "File", text |-> <<>>, path |-> p]
SourceReference(p) == [tag |-> "Reference", text |-> <<>>, path |-> p]

Settings(utc, fmt, date_source, set_to) ==
    [utc |-> utc, format |-> fmt, date_source |-> date_source, set_to |-> set_to]

\* before parse_cli has returned a Settings
NoSettings == Settings(FALSE, Default, [tag |-> "Unset", text |-> <<>>, path |-> ""], None)

select_format(a) ==
    IF value_of(a, "format") # None THEN Custom(Tail(value_of(a, "format")[1]))
    ELSE IF value_of(a, "iso-8601") # None THEN Iso8601(value_of(a, "iso-8601")[1])
    ELSE IF is_present(a, "iso-8601") THEN Iso8601(DATE)
    ELSE IF is_present(a, "iso-2822") THEN Rfc2822
    ELSE IF value_of(a, "iso-3339") # None THEN Rfc3339(value_of(a, "iso-3339")[1])
    ELSE Default

select_date_source(a) ==
    IF value_of(a, "date") # None THEN SourceCustom(value_of(a, "date")[1])
    ELSE IF value_of(a, "file") # None THEN SourceFile(value_of(a, "file")[1])
    ELSE IF value_of(a, "reference") # None
         THEN SourceReference(value_of(a, "reference")[1])
    ELSE SourceNow

\* the set value, parsed: None when there is none, else Some(result)
parse_set_to(a, clock) ==
    IF value_of(a, "positional set") # None
    THEN Some(parse_custom_date_time(value_of(a, "positional set")[1], a.utc, clock))
    ELSE IF value_of(a, "set") # None
    THEN Some(parse_date_time(value_of(a, "set")[1]))
    ELSE None

\* Ok(Settings { .. }), or the error "?" returned on the set value
make_settings(a, set_to) ==
    IF set_to # None /\ set_to[1].kind # "Ok"
    THEN [err |-> ErrorOf(set_to[1]), settings |-> NoSettings]
    ELSE [err |-> NoError,
          settings |-> Settings(a.utc, select_format(a), select_date_source(a),
                                IF set_to = None THEN None ELSE Some(set_to[1].ts))]

\* parse_cli after clap accepted the line: [err, settings]
parse_cli(a, clock) == make_settings(a, parse_set_to(a, clock))

(* Bounds and the sampled inputs                                           *)
(***************************************************************************)
MaxLines == 3       \* lines of a date-file
MaxTail == 1        \* characters that follow a positional token

StrRfc2822 ==
    <<"M", "o", "n", ",", " ", "0", "7", " ", "A", "u", "g", " ", "2", "0", "0", "6", " ", "1", "2", ":", "3", "4", ":", "5", "6", " ", "-", "0", "6", "0", "0">>
StrRfc3339 ==
    <<"2", "0", "0", "6", "-", "0", "8", "-", "0", "7", "T", "1", "2", ":", "3", "4", ":", "5", "6", "-", "0", "6", ":", "0", "0">>
StrRfc3339Zulu ==
    <<"2", "0", "2", "4", "-", "0", "2", "-", "2", "9", "T", "2", "3", ":", "5", "9", ":", "5", "9", "Z">>
StrGarbage == <<"x">>

DateValues == {StrRfc2822, StrRfc3339, StrGarbage}
LineSamples == {StrRfc3339, StrRfc3339Zulu, StrRfc2822, StrGarbage}

FormatArg == <<"+", "%Y", "/", "%H">>
TokenArg == <<"0", "1", "0", "1", "1", "2", "0", "0">>
TokenArgFull == <<"0", "1", "0", "1", "1", "2", "0", "0", "2", "5", "0", "6", ".", "3", "0">>

PositionalSamples ==
    {<<>>, <<FormatArg>>, <<TokenArg>>, <<FormatArg, TokenArg>>,
     <<FormatArg, TokenArgFull>>}

\* readings of the system clock: an instant and the local offset
ClockSamples ==
    {[secs |-> timestamp(Timestamp(2024, 6, 15, 12, 0, 0, 0, 0)), nsecs |-> 0, local |-> 0],
     [secs |-> timestamp(Timestamp(2024, 1, 31, 8, 30, 15, 0, 0)), nsecs |-> 500, local |-> -360],
     [secs |-> timestamp(Timestamp(2023, 3, 30, 22, 0, 0, 0, 0)), nsecs |-> 0, local |-> 120],
     [secs |-> timestamp(Timestamp(1999, 12, 31, 23, 30, 0, 0, 0)), nsecs |-> 7, local |-> 60]}

AnyClock == CHOOSE c \in ClockSamples : TRUE

\* what clock_settime returns, and errno after -1
RetCodes == {0, -1, 22}
Errnos == {1}

\* all sequences over S of length at most n
SeqsUpTo(S, n) == UNION {[1..k -> S] : k \in 0..n}

FileContents == SeqsUpTo(LineSamples, MaxLines)
Missing == <<"missing">>

ArgSets ==
    [utc : BOOLEAN,
     date : {None} \cup {Some(v) : v \in DateValues},
     file : {None, Some("datefile")},
     reference : {None, Some("ref")},
     iso8601 : {None} \cup {Some(v) : v \in {"", DATE, HOURS, MINUTES, SECONDS, NS}},
     rfc2822 : BOOLEAN,
     rfc3339 : {None} \cup {Some(v) : v \in {DATE, SECONDS, NS}},
     set : {None} \cup {Some(v) : v \in DateValues},
     positionals : PositionalSamples]

NoArgs ==
    [utc |-> FALSE, date |-> None, file |-> None, reference |-> None,
     iso8601 |-> None, rfc2822 |-> FALSE, rfc3339 |-> None, set |-> None,
     positionals |-> <<>>]

NoEffects == [setParsed |-> 0, fileOpened |-> FALSE, clockSet |-> None]
NoInput == [time |-> <<>>, utc |-> FALSE, clock |-> AnyClock, ts |-> NoTimestamp]

(***************************************************************************)
(* The run: uumain / uumain_impl                                           *)
(***************************************************************************)
Init ==
    /\ args \in ArgSets
    /\ pc = "start"
    /\ settings = NoSettings
    /\ lines = <<>>
    /\ lineIdx = 0
    /\ stdout = <<>>
    /\ exit = -1
    /\ err = NoError
    /\ effects = NoEffects
    /\ input = NoInput
    /\ result = NoResult

HasSetValue(a) == value_of(a, "positional set") # None \/ value_of(a, "set") # None

\* uumain's Err arm: the error goes to stderr and the status is 1
Fail(e) ==
    /\ pc' = "done"
    /\ exit' = 1
    /\ err' = e

\* uumain's Ok arm
Succeed ==
    /\ pc' = "done"
    /\ exit' = 0
    /\ err' = NoError

\* print_date: println!("{}", date.format(format_string))
print_date(out, date, st) == Append(out, format(date, make_format_string(st.format)))

\* clap rejects the line: message to stderr, exit(1), nothing else happens
UsageError ==
    /\ pc = "start"
    /\ ~get_matches_from(args)
    /\ Fail([kind |-> "Usage", value |-> 0, text |-> <<>>])
    /\ UNCHANGED <<args, settings, lines, lineIdx, stdout, effects, input, result>>

\* parse_cli fails on the set value
SetParseError ==
    /\ pc = "start"
    /\ get_matches_from(args)
    /\ HasSetValue(args)
    /\ \E clock \in ClockSamples :
         \E r \in {parse_cli(args, clock)} :
             /\ r.err # NoError
             /\ Fail(r.err)
    /\ effects' = [effects EXCEPT !.setParsed = @ + 1]
    /\ UNCHANGED <<args, settings, lines, lineIdx, stdout, input, result>>

\* the timespec set_time hands to clock_settime
timespec(date_time) == [tv_sec |-> timestamp(date_time), tv_nsec |-> date_time.nano]

\* settings.set_to is Some: set_time
SetTime ==
    /\ pc = "start"
    /\ get_matches_from(args)
    /\ HasSetValue(args)
    /\ \E clock \in ClockSamples, retcode \in RetCodes, errno \in Errnos :
         \E r \in {parse_cli(args, clock)} :
            /\ r.err = NoError
            /\ settings' = r.settings
            /\ effects' = [effects EXCEPT !.setParsed = @ + 1,
                                          !.clockSet = Some(timespec(r.settings.set_to[1]))]
            /\ pc' = "done"
            /\ exit' = IF retcode = 0 THEN 0 ELSE 1
            /\ err' = IF retcode = 0 THEN NoError
                      ELSE IF retcode = -1
                      THEN [kind |-> "SetTime", value |-> errno, text |-> <<>>]
                      ELSE [kind |-> "UnknownReturnCode", value |-> retcode, text |-> <<>>]
    /\ UNCHANGED <<args, lines, lineIdx, stdout, input, result>>

\* the guard of the four print arms: clap accepted and there is no set value
Printing(tag) ==
    /\ pc = "start"
    /\ get_matches_from(args)
    /\ ~HasSetValue(args)
    /\ select_date_source(args).tag = tag
    /\ settings' = parse_cli(args, AnyClock).settings

\* DateSource::Custom: input.parse()?, print_date
PrintCustom ==
    /\ Printing("Custom")
    /\ \E date \in {from_str(settings'.date_source.text)} :
          IF date.kind = "Ok"
          THEN Succeed /\ stdout' = print_date(stdout, date.ts, settings')
          ELSE Fail(ErrorOf(date)) /\ stdout' = stdout
    /\ UNCHANGED <<args, lines, lineIdx, effects, input, result>>

\* DateSource::File: File::open(path)?
OpenFile ==
    /\ Printing("File")
    /\ \E content \in FileContents \cup {Missing} :
         IF content = Missing
         THEN /\ Fail([kind |-> "Io", value |-> 0, text |-> <<>>])
              /\ UNCHANGED <<lines, lineIdx, effects>>
         ELSE /\ lines' = content
              /\ lineIdx' = 1
              /\ effects' = [effects EXCEPT !.fileOpened = TRUE]
              /\ pc' = "file"
              /\ UNCHANGED <<exit, err>>
    /\ UNCHANGED <<args, stdout, input, result>>

\* a loop that skips a line it cannot parse and goes on
FileLineSkipBad ==
    /\ pc = "file"
    /\ lineIdx <= Len(lines)
    /\ \E date \in {from_str(lines[lineIdx])} :
          stdout' = IF date.kind = "Ok" THEN print_date(stdout, date.ts, settings)
                    ELSE stdout
    /\ lineIdx' = lineIdx + 1
    /\ UNCHANGED <<args, pc, settings, lines, exit, err, effects, input, result>>

\* one turn of the loop: line?.parse()?, print_date
FileLine ==
    /\ pc = "file"
    /\ lineIdx <= Len(lines)
    /\ \E date \in {from_str(lines[lineIdx])} :
          IF date.kind = "Ok"
          THEN /\ stdout' = print_date(stdout, date.ts, settings)
               /\ lineIdx' = lineIdx + 1
               /\ UNCHANGED <<pc, exit, err>>
          ELSE /\ Fail(ErrorOf(date))
               /\ UNCHANGED <<stdout, lineIdx>>
    /\ UNCHANGED <<args, settings, lines, effects, input, result>>

\* the loop is over
FileEnd ==
    /\ pc = "file"
    /\ lineIdx > Len(lines)
    /\ Succeed
    /\ UNCHANGED <<args, settings, lines, lineIdx, stdout, effects, input, result>>

\* DateSource::Reference: the file's modification time, in UTC
PrintReference ==
    /\ Printing("Reference")
    /\ \E mtime \in ClockSamples, found \in BOOLEAN :
         IF found
         THEN /\ Succeed
              /\ stdout' = print_date(stdout, utc_timestamp(mtime.secs, mtime.nsecs),
                                      settings')
         ELSE /\ Fail([kind |-> "Io", value |-> 0, text |-> <<>>])
              /\ stdout' = stdout
    /\ UNCHANGED <<args, lines, lineIdx, effects, input, result>>

\* DateSource::Now: print_date(get_now(settings.utc))
PrintNow ==
    /\ Printing("Now")
    /\ \E clock \in ClockSamples :
         stdout' = print_date(stdout, get_now(settings'.utc, clock), settings')
    /\ Succeed
    /\ UNCHANGED <<args, lines, lineIdx, effects, input, result>>

Next ==
    \/ UsageError
    \/ SetParseError
    \/ SetTime
    \/ PrintCustom
    \/ OpenFile
    \/ FileLine
    \/ FileEnd
    \/ PrintReference
    \/ PrintNow

Spec == Init /\ [][Next]_vars

(***************************************************************************)
(* parse_custom_date_time on its own: every sampled token, flag and clock  *)
(***************************************************************************)
TwoDigitFields(values) == {Pad(v, 2) : v \in values}

YearParts == {<<>>, Pad(25, 2), Pad(25, 2) \o Pad(6, 2), Pad(19, 2) \o Pad(99, 2)}
SecondParts == {<<>>, <<".">> \o Pad(30, 2), <<".">> \o Pad(60, 2)}
Tails == {[i \in 1..k |-> "x"] : k \in 0..MaxTail}

TokenSamples ==
    {mo \o d \o h \o mi \o y \o sec \o tail :
        mo \in TwoDigitFields({1, 2, 12, 13}), d \in TwoDigitFields({1, 29, 31, 32}),
        h \in TwoDigitFields({12, 24}), mi \in TwoDigitFields({0, 60}),
        y \in YearParts, sec \in SecondParts, tail \in Tails}
    \cup {<<>>, <<"x">>, <<"0", "1", "0", "1", "x", "2", "0", "0">>,
          <<"0", "1", "0", "1", "1", "2", "0", "0", ".", "3">>,
          <<"0", "1", "0", "1", "1", "2", "0", "0", ".", "x", "0">>}

InitCustom ==
    /\ input \in [time : TokenSamples, utc : BOOLEAN, clock : ClockSamples,
                  ts : {NoTimestamp}]
    /\ pc = "call"
    /\ args = NoArgs
    /\ settings = NoSettings
    /\ lines = <<>>
    /\ lineIdx = 0
    /\ stdout = <<>>
    /\ exit = -1
    /\ err = NoError
    /\ effects = NoEffects
    /\ result = NoResult

CallParseCustom ==
    /\ pc = "call"
    /\ result' = parse_custom_date_time(input.time, input.utc, input.clock)
    /\ pc' = "ret"
    /\ UNCHANGED <<args, settings, lines, lineIdx, stdout, exit, err, effects, input>>

NextCustom == CallParseCustom

SpecCustom == InitCustom /\ [][NextCustom]_vars

(***************************************************************************)
(* Render with the Rfc3339/Seconds template, then parse_date_time          *)
(***************************************************************************)
TimestampSamples ==
    {Timestamp(y, mo, d, h, 7, sec, ns, off) :
        y \in {1999, 2006, 2024}, mo \in {1, 2, 12}, d \in {1, 28}, h \in {0, 23},
        sec \in {0, 59}, ns \in {0, 5, 999999999}, off \in {-360, 0, 330}}

InitRound ==
    /\ input \in [time : {<<>>}, utc : {FALSE}, clock : {AnyClock}, ts : TimestampSamples]
    /\ pc = "render"
    /\ args = NoArgs
    /\ settings = NoSettings
    /\ lines = <<>>
    /\ lineIdx = 0
    /\ stdout = <<>>
    /\ exit = -1
    /\ err = NoError
    /\ effects = NoEffects
    /\ result = NoResult

Render ==
    /\ pc = "render"
    /\ stdout' = <<format(input.ts, make_format_string(Rfc3339(SECONDS)))>>
    /\ pc' = "parse"
    /\ UNCHANGED <<args, settings, lines, lineIdx, exit, err, effects, input, result>>

Reparse ==
    /\ pc = "parse"
    /\ result' = parse_date_time(stdout[1])
    /\ pc' = "ret"
    /\ UNCHANGED <<args, settings, lines, lineIdx, stdout, exit, err, effects, input>>

NextRound == Render \/ Reparse

SpecRound == InitRound /\ [][NextRound]_vars

(***************************************************************************)
(* The claims                                                              *)
(***************************************************************************)
SetFlagPresent == args.set # None \/ Len(args.positionals) >= 2

PrintSourceFlags ==
    (IF args.date # None THEN 1 ELSE 0) + (IF args.file # None THEN 1 ELSE 0)
        + (IF args.reference # None THEN 1 ELSE 0)

ConflictingFlags ==
    (SetFlagPresent /\ PrintSourceFlags >= 1) \/ PrintSourceFlags >= 2

\* C1: a set flag together with a print-source flag, or more than one
\* print-source flag, ends the run with a usage error and status 1, and no
\* set value is parsed, no file is opened and the clock is not set.
C1_ConflictIsUsageErrorWithoutEffects ==
    ConflictingFlags =>
        /\ effects = NoEffects
        /\ pc \in {"start", "done"}
        /\ pc = "done" => (exit = 1 /\ err.kind = "Usage")

C1_Witness ==
    /\ pc = "done"
    /\ args.set # None
    /\ args.date # None
    /\ args.positionals = <<>>
    /\ exit = 1
    /\ err.kind = "Usage"
    /\ effects = NoEffects

\* the token as the grammar MMDDhhmm[[CC]YY][.ss] reads it
AllDigits(s) == \A i \in 1..Len(s) : IsDigit(s[i])

HasSecondsSuffix(tok) ==
    /\ Len(tok) >= 3
    /\ tok[Len(tok) - 2] = "."
    /\ IsDigit(tok[Len(tok) - 1])
    /\ IsDigit(tok[Len(tok)])

TokenDigits(tok) ==
    IF HasSecondsSuffix(tok) THEN SubSeq(tok, 1, Len(tok) - 3) ELSE tok

IsToken(tok, n) == Len(TokenDigits(tok)) = n /\ AllDigits(TokenDigits(tok))

TokenField(tok, k) == DecimalValue(SubSeq(tok, 2 * k - 1, 2 * k))

TokenSecond(tok) ==
    IF HasSecondsSuffix(tok) THEN DecimalValue(SubSeq(tok, Len(tok) - 1, Len(tok)))
    ELSE 0

SampledNow == get_now(input.utc, input.clock)

TokenYear(tok) ==
    IF IsToken(tok, 12) THEN TokenField(tok, 5) * 100 + TokenField(tok, 6)
    ELSE IF IsToken(tok, 10) THEN (SampledNow.year \div 100) * 100 + TokenField(tok, 5)
    ELSE SampledNow.year

ValidToken(tok) ==
    /\ ValidDate(TokenYear(tok), TokenField(tok, 1), TokenField(tok, 2))
    /\ TokenField(tok, 3) <= 23
    /\ TokenField(tok, 4) <= 59
    /\ TokenSecond(tok) <= 59

\* C2: a valid 10-digit token MMDDhhmmYY gives a timestamp whose year is
\* (now.year / 100) * 100 + YY.
C2_TwoDigitYearInCenturyOfNow ==
    (pc = "ret" /\ IsToken(input.time, 10) /\ ~HasSecondsSuffix(input.time)
        /\ ValidToken(input.time)) =>
        /\ result.kind = "Ok"
        /\ result.ts.year = (SampledNow.year \div 100) * 100 + TokenField(input.time, 5)

\* C3: a valid 12-digit token MMDDhhmmCCYY, with or without .ss, gives a
\* timestamp whose year is CC * 100 + YY whatever the year of "now"; with
\* .ss its second is ss.
C3_FourDigitYearIsExact ==
    (pc = "ret" /\ IsToken(input.time, 12) /\ ValidToken(input.time)) =>
        /\ result.kind = "Ok"
        /\ result.ts.year = TokenField(input.time, 5) * 100 + TokenField(input.time, 6)
        /\ result.ts.second = TokenSecond(input.time)

\* C4: an 8-digit token MMDDhhmm that is a valid date-time in the year of
\* "now" gives month MM, day DD, hour hh, minute mm, the year of "now" and
\* second 0, whatever the month and day of "now".
C4_EightDigitsKeepYearOfNow ==
    (pc = "ret" /\ IsToken(input.time, 8) /\ ~HasSecondsSuffix(input.time)
        /\ ValidToken(input.time)) =>
        /\ result.kind = "Ok"
        /\ result.ts.month = TokenField(input.time, 1)
        /\ result.ts.day = TokenField(input.time, 2)
        /\ result.ts.hour = TokenField(input.time, 3)
        /\ result.ts.minute = TokenField(input.time, 4)
        /\ result.ts.year = SampledNow.year
        /\ result.ts.second = 0

\* C5: a token with month 13 fails with the month error carrying 13, and a
\* field-range error names a field only with a value out of its range.
C5_FieldRangeErrorNamesTheField ==
    pc = "ret" =>
        /\ ((IsToken(input.time, 8) \/ IsToken(input.time, 10) \/ IsToken(input.time, 12))
               /\ TokenField(input.time, 1) = 13)
             => (result.kind = "ParseMonth" /\ result.value = 13)
        /\ result.kind = "ParseMonth" => result.value \notin 1..12
        /\ result.kind = "ParseDay" =>
             ~ValidDate(TokenYear(input.time), TokenField(input.time, 1), result.value)
        /\ result.kind = "ParseHour" => result.value > 23
        /\ result.kind = "ParseMinute" => result.value > 59
        /\ result.kind = "ParseSecond" => result.value > 59

\* a character that is neither a digit nor the "." of a two-digit seconds suffix
StrayCharacter(tok) ==
    \E i \in 1..Len(tok) :
        /\ ~IsDigit(tok[i])
        /\ ~(HasSecondsSuffix(tok) /\ i = Len(tok) - 2)

\* C6: a token with a non-digit character anywhere (the "." of the seconds
\* suffix apart), also after the eight mandatory digits, fails with the Nom
\* syntax error: no timestamp, no field-range error.
C6_NonDigitIsSyntaxError ==
    (pc = "ret" /\ StrayCharacter(input.time)) => result.kind = "Nom"

C6_Witness ==
    /\ pc = "ret"
    /\ Len(input.time) = 9
    /\ AllDigits(SubSeq(input.time, 1, 8))
    /\ input.time[9] = "x"
    /\ result.kind = "Nom"

\* the first line from_str rejects, Len + 1 when there is none
FirstBadLine(ls) ==
    CHOOSE k \in 1..(Len(ls) + 1) :
        /\ \A j \in 1..(k - 1) : from_str(ls[j]).kind = "Ok"
        /\ k <= Len(ls) => from_str(ls[k]).kind # "Ok"

\* the rendered timestamps of the lines before line k
RenderedBefore(ls, k) ==
    [j \in 1..(k - 1) |-> format(from_str(ls[j]).ts, make_format_string(settings.format))]

IsPrefix(a, b) == Len(a) <= Len(b) /\ SubSeq(b, 1, Len(a)) = a

\* C7: in file mode the lines are printed in file order up to the first line
\* that fails to parse; there the run stops with status 1 and nothing is
\* printed for any later line.
C7_FileModeFailsFast ==
    effects.fileOpened =>
        /\ IsPrefix(stdout, RenderedBefore(lines, FirstBadLine(lines)))
        /\ pc = "done" =>
             /\ stdout = RenderedBefore(lines, FirstBadLine(lines))
             /\ exit = IF FirstBadLine(lines) <= Len(lines) THEN 1 ELSE 0

C7_Witness ==
    /\ pc = "done"
    /\ effects.fileOpened
    /\ Len(lines) = 3
    /\ FirstBadLine(lines) = 2
    /\ from_str(lines[3]).kind = "Ok"
    /\ Len(stdout) = 1
    /\ exit = 1

\* the Format the flags ask for
FormatFlags ==
    (IF args.rfc2822 THEN 1 ELSE 0) + (IF args.rfc3339 # None THEN 1 ELSE 0)
        + (IF args.iso8601 # None THEN 1 ELSE 0)
        + (IF Len(args.positionals) >= 1 THEN 1 ELSE 0)

FormatAsked ==
    IF args.rfc2822 THEN Rfc2822
    ELSE IF args.rfc3339 # None THEN Rfc3339(args.rfc3339[1])
    ELSE IF args.iso8601 = Some("") THEN Iso8601(DATE)
    ELSE IF args.iso8601 # None THEN Iso8601(args.iso8601[1])
    ELSE IF Len(args.positionals) >= 1 THEN Custom(Tail(args.positionals[1]))
    ELSE Default

\* C8: with exactly one format flag the Settings of parse_cli carries the
\* matching Format (--rfc-2822 Rfc2822, --rfc-3339=P Rfc3339(P), --iso-8601=P
\* Iso8601(P), +FMT the template FMT), and Default only without a flag.
C8_FormatFollowsTheFlag ==
    settings.date_source.tag # "Unset" =>
        /\ FormatFlags = 1 => settings.format = FormatAsked
        /\ settings.format = Default => FormatFlags = 0

\* C9: rendering t with the Rfc3339/Seconds template and parsing the text
\* with parse_date_time gives t cut to whole seconds, same offset.
C9_Rfc3339SecondsRoundTrip ==
    pc = "ret" => result = Ok([input.ts EXCEPT !.nano = 0])

\* what a run that prints the free-form string s must end with, were s
\* parsed by parse_date_time
EndsAsParseDateTime(r) ==
    IF r.kind = "Ok"
    THEN exit = 0 /\ stdout = <<format(r.ts, make_format_string(settings.format))>>
    ELSE exit = 1 /\ err = ErrorOf(r) /\ stdout = <<>>

\* C10: the string of --date is parsed as the string of --set is, by
\* parse_date_time: RFC 2822 first, then RFC 3339, else the error carrying
\* the string.
C10_DateIsParsedAsSetIs ==
    (pc = "done" /\ settings.date_source.tag = "Custom") =>
        EndsAsParseDateTime(parse_date_time(settings.date_source.text))

====
